---------------------------- MODULE Spec2Model ----------------------------
(***************************************************************************)
(* Model of the hooks of mkfolder-utils (Makefolder/react-utils).          *)
(*                                                                         *)
(* useRetry (src/hooks/useRetry.ts) is modelled as a state machine: one    *)
(* hook instance with its two useState cells (status, error), its two refs *)
(* (savedCallback, timeoutRef), the platform's set of pending timers, and  *)
(* one record of locals per execute() call (attempts, delay, position).    *)
(* Calls may overlap: execute() does not guard against re-entry.           *)
(* execute() is called by the mounted component only.  The unmount cleanup *)
(* clears timeoutRef.current and nothing else: an operation in flight is   *)
(* not aborted and its continuation still runs, and status and error stand *)
(* for the last values passed to setStatus and setError.                   *)
(*                                                                         *)
(* useDebounce (src/hooks/useDebounce.ts), useLocalStorage and usePolling  *)
(* are modelled the same way, one hook instance each.  Every hook has its  *)
(* own specification (Spec, SpecLive and SpecCallback for useRetry,        *)
(* SpecDebounce, SpecStorage, SpecPolling); the instances of the other     *)
(* hooks stay in a fixed initial state there.  A render and the effect     *)
(* cleanups and effects it causes are one step.                            *)
(***************************************************************************)
EXTENDS Integers, Sequences, FiniteSets, TLC

(* ------------------------------ bounds --------------------------------- *)

\* number of execute() calls made on the hook instance in one behaviour
MaxCalls == 2

\* opts.maxRetries, when given, ranges over 0..MaxRetriesOpt
MaxRetriesOpt == 2

\* opts.initialInterval ranges over 0..MaxInterval
MaxInterval == 2

(* --------------------------- program values ---------------------------- *)

\* enum Mode { CONSTANT, EXPONENTIAL }
CONSTANT_MODE == "CONSTANT"

EXPONENTIAL_MODE == "EXPONENTIAL"

Modes == {CONSTANT_MODE, EXPONENTIAL_MODE}

\* default of the destructuring `maxRetries = 3`
DefaultMaxRetries == 3

\* values an operation can throw: Error instances and a value that is none
Errors == {"E1", "E2"}

NonErrors == {"thrown string"}

Thrown == Errors \cup NonErrors

\* new Error('Unknown error')
UnknownError == "Error: Unknown error"

NULL == "null"

\* timeoutRef.current === null: no timer id (timer ids are pairs)
NoTimer == <<>>

\* callbacks a render may pass as callbackFn
Callbacks == {"cbA", "cbB"}

Calls == 1..MaxCalls

\* the argument `opts`: mode and maxRetries are optional fields
OptsSet ==
    LET I == 0..MaxInterval
        R == 0..MaxRetriesOpt
    IN  [initialInterval : I]
        \cup [initialInterval : I, mode : Modes]
        \cup [initialInterval : I, maxRetries : R]
        \cup [initialInterval : I, mode : Modes, maxRetries : R]

VARIABLES
    opts,           \* the options object passed to useRetry
    mounted,        \* the owning component is mounted
    savedCallback,  \* savedCallback.current
    timeoutRef,     \* timeoutRef.current: NoTimer or a timer id
    timers,         \* timers set with setTimeout and neither fired nor cleared
    status,         \* useState<Status>
    error,          \* useState<Error | null>
    nextCall,       \* index of the next execute() call
    pc,             \* per call: where the call is
    attempts,       \* per call: `let attempts`
    delay,          \* per call: `let delay`
    \* ---- observations (written, never read by the actions) ----
    invocations,    \* per call: number of savedCallback.current() invocations
    delays,         \* per call: the delays passed to setTimeout, in order
    finalThrown,    \* per call: the value thrown by the attempt that exhausted it
    rejectedWith,   \* per call: the error its promise was rejected with
    overlapped,     \* per call: another call was in progress during this one
    unmountCase,    \* what was pending when the component unmounted
    invokedAfterUnmount, \* the operation was invoked after the unmount
    observeCallback,    \* the two observations below are recorded
    capturedCallback,   \* callbackFn of the render whose execute() ran last
    lastInvoked         \* the callback that the latest invocation ran

hookVars == <<opts, mounted, savedCallback, timeoutRef, timers, status, error>>

callVars == <<nextCall, pc, attempts, delay>>

obsVars == <<invocations, delays, finalThrown, rejectedWith, overlapped,
             unmountCase, invokedAfterUnmount, observeCallback,
             capturedCallback, lastInvoked>>

retryVars == <<hookVars, callVars, obsVars>>

VARIABLES
    \* ---- useDebounce ----
    value,            \* the argument `value` of the latest render
    delayMs,          \* the argument `delayMs` of the latest render
    debouncedValue,   \* useState<T>
    handler,          \* `handler` of the effect that ran last
    handlers,         \* timers set with setTimeout and neither fired nor cleared
    now,              \* the clock, in ms
    debounceMounted,  \* the owning component is mounted
    lastChange,       \* observation: when value or delayMs changed last
    cancelled,        \* observation: a change cancelled a pending timer
    lastPublishedAt   \* observation: when setDebouncedValue ran last, or -1

debounceVars == <<value, delayMs, debouncedValue, handler, handlers, now,
                  debounceMounted, lastChange, cancelled, lastPublishedAt>>

VARIABLES
    \* ---- useLocalStorage ----
    key,              \* the argument `key`
    initialValue,     \* the argument `initialValue`
    storedValue,      \* useState<T>: the state cell
    renderedValue,    \* `storedValue` as the latest render read it: the
                      \* value in the closure of setValue
    localStorage,     \* window.localStorage: key -> item or NoItem
    listening,        \* the 'storage' listener is registered
    lastOp            \* observation: the operation that ran last

storageVars == <<key, initialValue, storedValue, renderedValue, localStorage,
                 listening, lastOp>>

VARIABLES
    \* ---- usePolling ----
    enabled,          \* opts.enabled of the latest render
    interval,         \* opts.interval of the latest render
    pollCallback,     \* savedCallback.current of usePolling
    timerId,          \* `timerId` of the effect that ran last, or NoTimer
    intervalTimers,   \* timers started with setInterval and not cleared
    isMounted,        \* the effects whose flag `isMounted` is true
    effects,          \* number of effects that started polling
    pollMounted,      \* the owning component is mounted
    pollCount,        \* observation: number of invocations of the callback
    invokedBy         \* observation: the timer that made the latest invocation

pollingVars == <<enabled, interval, pollCallback, timerId, intervalTimers,
                 isMounted, effects, pollMounted, pollCount, invokedBy>>

otherHooks == <<debounceVars, storageVars, pollingVars>>

vars == <<retryVars, otherHooks>>

(* ------------------------ useRetry: the options ------------------------ *)

\* const { initialInterval, maxRetries = 3 } = opts;
initialInterval == opts.initialInterval

maxRetries ==
    IF "maxRetries" \in DOMAIN opts THEN opts.maxRetries ELSE DefaultMaxRetries

\* const mode = opts.mode ?? Mode.CONSTANT;
mode == IF "mode" \in DOMAIN opts THEN opts.mode ELSE CONSTANT_MODE

(* ---------------------- useRetry: execute helpers ---------------------- *)

\* variant: execute() without its setStatus('fetching')
StatusOnExecute_missing == status

\* setStatus('fetching');
StatusOnExecute == "fetching"

\* variant: execute() without its setError(null)
ErrorOnExecute_missing == error

\* setError(null);
ErrorOnExecute == NULL

\* variant: the try block without its setStatus('idle')
StatusOnSuccess_missing == status

\* setStatus('idle');
StatusOnSuccess == "idle"

\* variant: the attempt invokes the callbackFn captured by execute()
CallbackToInvoke_captured(captured) == captured

\* await savedCallback.current();  (captured: the callbackFn in the closure)
CallbackToInvoke(captured) == savedCallback

\* the observation of a callback: recorded where callbacks are observed
Observed(new, old) == IF observeCallback THEN new ELSE old

\* a call whose promise has not settled
Active(c) == pc[c] \in {"inflight", "waiting"}

(* ------------------- useRetry: attemptExecution helpers ---------------- *)

\* variant: allowing one attempt too many
Exhausted_late(a) == a > maxRetries

\* variant: giving up one attempt early
Exhausted_early(a) == a >= maxRetries - 1

\* if (attempts >= maxRetries)
Exhausted(a) == a >= maxRetries

\* const error = err instanceof Error ? err : new Error('Unknown error');
Coerce(err) == IF err \in Errors THEN err ELSE UnknownError

\* variant: the delay is never doubled
NextDelay_never(d) == d

\* variant: the delay is doubled whatever the mode
NextDelay_always(d) == d * 2

\* if (mode === Mode.EXPONENTIAL) { delay *= 2; }
NextDelay(d) == IF mode = EXPONENTIAL_MODE THEN d * 2 ELSE d

\* variant: a cleanup that clears nothing
ClearTimeout_nothing(ts, id) == ts

\* clearTimeout(id): a no-op for an id that already fired or was cleared
ClearTimeout(ts, id) == ts \ {id}

(* ------------------------ useDebounce: values -------------------------- *)

\* the clock stops at MaxTime
MaxTime == 3

\* delayMs ranges over 0..MaxDelayMs
MaxDelayMs == 2

\* the values passed as `value`
InputValues == {"a", "b", "c"}

\* variant: an effect cleanup that clears nothing
DebounceCleanup_nothing(ts, id) == ts

\* return () => { clearTimeout(handler); };
DebounceCleanup(ts, id) == ClearTimeout(ts, id)

\* setTimeout(() => { setDebouncedValue(value); }, delayMs): the timer is
\* identified by the value its callback publishes, the time it was set and
\* the time it is due
SetTimeout(v, d) == <<v, now, now + d>>

\* The first render: useState(value), then the effect sets the timer.
DebounceInit ==
    /\ value \in InputValues
    /\ delayMs \in 0..MaxDelayMs
    /\ debouncedValue = value
    /\ now = 0
    /\ handler = SetTimeout(value, delayMs)
    /\ handlers = {handler}
    /\ debounceMounted = TRUE
    /\ lastChange = 0
    /\ cancelled = FALSE
    /\ lastPublishedAt = -1

\* the hook instance of a specification about another hook
DebounceParked == value = "a" /\ delayMs = 0 /\ DebounceInit

(* ---------------------- useLocalStorage: values ------------------------ *)

\* the stored values (T = number) range over 0..MaxStored
MaxStored == 2

StoredValues == 0..MaxStored

Keys == {"k1", "k2"}

\* getItem() of a key that is not stored, newValue of a removal
NoItem == "(null)"

\* JSON.stringify(v) of a number
Stringify(v) == ToString(v)

\* the items other documents write: JSON texts of numbers, the empty string
\* and a text that is not JSON
RawItems == {Stringify(v) : v \in StoredValues} \cup {"", "oops"}

\* JSON.parse(item) returns
ParseOK(item) == \E v \in StoredValues : Stringify(v) = item

\* JSON.parse(item), where it returns
Parse(item) == CHOOSE v \in StoredValues : Stringify(v) = item

\* `item ? ... : ...`: null and the empty string are falsy
Truthy(item) == item # NoItem /\ item # ""

\* the updater functions passed to setValue
Updaters == {"x => Math.min(x + 1, MaxStored)", "x => 0"}

\* value(storedValue)
Apply(f, x) ==
    IF f = "x => 0" THEN 0
    ELSE IF x + 1 <= MaxStored THEN x + 1 ELSE MaxStored

\* the record of an operation, for the properties
Op(op, prev, val, fn, k, item, before, threw) ==
    [op |-> op, prev |-> prev, val |-> val, fn |-> fn, key |-> k,
     item |-> item, before |-> before, threw |-> threw]

\* The first render: the initializer of useState reads localStorage; the
\* effect registers the listener.
StorageInit ==
    /\ key \in Keys
    /\ initialValue \in StoredValues
    /\ localStorage \in [Keys -> {NoItem} \cup RawItems]
    /\ storedValue =
          IF Truthy(localStorage[key]) /\ ParseOK(localStorage[key])
          THEN Parse(localStorage[key])
          ELSE initialValue
    /\ renderedValue = storedValue
    /\ listening = TRUE
    /\ lastOp = Op("mount", "none", 0, "", key, NoItem, storedValue, FALSE)

\* the hook instance of a specification about another hook
StorageParked ==
    /\ key = "k1" /\ initialValue = 0
    /\ localStorage = [k \in Keys |-> NoItem]
    /\ StorageInit

(* ------------------------- usePolling: values -------------------------- *)

\* opts.interval ranges over 0..MaxPollInterval
MaxPollInterval == 2

\* at most MaxEffects effects start polling
MaxEffects == 3

\* at most MaxPolls invocations are followed
MaxPolls == 3

\* if (!enabled || interval <= 0) return;
StartsPolling(en, iv) == en /\ iv > 0

\* setInterval(executeCallback, interval) of the n-th polling effect: the
\* timer is identified by n and by the arguments the effect ran under
SetInterval(n, en, iv) == <<n, en, iv>>

\* variant: a cleanup without clearInterval
PollCleanup_nothing(ts, id) == ts

\* clearInterval(timerId);
PollCleanup(ts, id) == ts \ {id}

\* The first render: both effects run.
PollingInit ==
    /\ enabled \in BOOLEAN
    /\ interval \in 0..MaxPollInterval
    /\ pollCallback \in Callbacks
    /\ pollMounted = TRUE
    /\ effects = IF StartsPolling(enabled, interval) THEN 1 ELSE 0
    /\ timerId = IF StartsPolling(enabled, interval)
                 THEN SetInterval(1, enabled, interval) ELSE NoTimer
    /\ intervalTimers = IF StartsPolling(enabled, interval)
                        THEN {SetInterval(1, enabled, interval)} ELSE {}
    /\ isMounted = IF StartsPolling(enabled, interval) THEN {1} ELSE {}
    /\ pollCount = 0
    /\ invokedBy = NoTimer

\* the hook instance of a specification about another hook
PollingParked ==
    /\ enabled = FALSE /\ interval = 0 /\ pollCallback = "cbA"
    /\ PollingInit

(* ------------------------------- Init ---------------------------------- *)

RetryInit ==
    /\ opts \in OptsSet
    /\ mounted = TRUE
    /\ savedCallback \in Callbacks
    /\ timeoutRef = NoTimer
    /\ timers = {}
    /\ status = "idle"
    /\ error = NULL
    /\ nextCall = 1
    /\ pc = [c \in Calls |-> "none"]
    /\ attempts = [c \in Calls |-> 0]
    /\ delay = [c \in Calls |-> 0]
    /\ invocations = [c \in Calls |-> 0]
    /\ delays = [c \in Calls |-> <<>>]
    /\ finalThrown = [c \in Calls |-> NULL]
    /\ rejectedWith = [c \in Calls |-> NULL]
    /\ overlapped = [c \in Calls |-> FALSE]
    /\ unmountCase = "mounted"
    /\ invokedAfterUnmount = FALSE
    /\ capturedCallback = NULL
    /\ lastInvoked = NULL

\* the hook instance of a specification about another hook
RetryParked ==
    /\ opts = [initialInterval |-> 1] /\ savedCallback = "cbA"
    /\ observeCallback = FALSE
    /\ RetryInit

Init ==
    /\ observeCallback = FALSE
    /\ RetryInit /\ DebounceParked /\ StorageParked /\ PollingParked

\* the same hook, with the callbacks of the invocations observed
InitCallback ==
    /\ observeCallback = TRUE
    /\ RetryInit /\ DebounceParked /\ StorageParked /\ PollingParked

(* ------------------------------ actions -------------------------------- *)

\* A render of the mounted component with callback cb:
\* savedCallback.current = callbackFn
Rerender(cb) ==
    /\ mounted
    /\ savedCallback' = cb
    /\ UNCHANGED <<opts, mounted, timeoutRef, timers, status, error>>
    /\ UNCHANGED <<callVars, obsVars>>
    /\ UNCHANGED <<observeCallback, otherHooks>>

\* execute(), called from the mounted component: the locals are initialised,
\* the two state cells are set, and attemptExecution() runs up to its first
\* await, which invokes savedCallback.current().
Execute ==
    /\ mounted
    /\ nextCall \in Calls
    /\ LET c == nextCall IN
        /\ nextCall' = nextCall + 1
        /\ attempts' = [attempts EXCEPT ![c] = 0]
        /\ delay' = [delay EXCEPT ![c] = initialInterval]
        /\ status' = StatusOnExecute
        /\ error' = ErrorOnExecute
        /\ pc' = [pc EXCEPT ![c] = "inflight"]
        /\ invocations' = [invocations EXCEPT ![c] = 1]
        /\ capturedCallback' = Observed(savedCallback, capturedCallback)
        /\ lastInvoked' = Observed(CallbackToInvoke(savedCallback), lastInvoked)
        /\ overlapped' = [d \in Calls |->
                             IF d = c THEN \E e \in Calls : Active(e)
                             ELSE overlapped[d] \/ Active(d)]
    /\ UNCHANGED <<opts, mounted, savedCallback, timeoutRef, timers>>
    /\ UNCHANGED <<delays, finalThrown, rejectedWith, unmountCase,
                   invokedAfterUnmount>>
    /\ UNCHANGED <<observeCallback, otherHooks>>

\* The awaited operation of call c fulfils: setStatus('idle'); the promise
\* of execute() resolves.
OpSucceed(c) ==
    /\ pc[c] = "inflight"
    /\ status' = StatusOnSuccess
    /\ pc' = [pc EXCEPT ![c] = "resolved"]
    /\ UNCHANGED <<opts, mounted, savedCallback, timeoutRef, timers, error>>
    /\ UNCHANGED <<nextCall, attempts, delay>>
    /\ UNCHANGED obsVars
    /\ UNCHANGED <<observeCallback, otherHooks>>

\* variant: the catch block does not await the delay before the next attempt
OpFail_noAwait(c, err) ==
    /\ pc[c] = "inflight"
    /\ attempts' = [attempts EXCEPT ![c] = attempts[c] + 1]
    /\ IF Exhausted(attempts[c] + 1)
       THEN /\ error' = Coerce(err)
            /\ status' = "error"
            /\ pc' = [pc EXCEPT ![c] = "rejected"]
            /\ rejectedWith' = [rejectedWith EXCEPT ![c] = Coerce(err)]
            /\ finalThrown' = [finalThrown EXCEPT ![c] = err]
            /\ UNCHANGED <<timeoutRef, timers, delays, delay, invocations,
                           lastInvoked>>
       ELSE /\ timeoutRef' = <<c, attempts[c] + 1>>
            /\ timers' = timers \cup {<<c, attempts[c] + 1>>}
            /\ delays' = [delays EXCEPT ![c] = Append(delays[c], delay[c])]
            /\ delay' = [delay EXCEPT ![c] = NextDelay(delay[c])]
            /\ invocations' = [invocations EXCEPT ![c] = invocations[c] + 1]
            /\ lastInvoked' =
                  Observed(CallbackToInvoke(capturedCallback), lastInvoked)
            /\ UNCHANGED <<pc, status, error, rejectedWith, finalThrown>>
    /\ UNCHANGED <<opts, mounted, savedCallback, nextCall>>
    /\ UNCHANGED <<overlapped, unmountCase, invokedAfterUnmount,
                   capturedCallback>>
    /\ UNCHANGED <<observeCallback, otherHooks>>

\* The awaited operation of call c throws err: the catch block.
OpFail(c, err) ==
    /\ pc[c] = "inflight"
    /\ attempts' = [attempts EXCEPT ![c] = attempts[c] + 1]
    /\ IF Exhausted(attempts[c] + 1)
       THEN \* setError(error); setStatus('error'); throw error;
            /\ error' = Coerce(err)
            /\ status' = "error"
            /\ pc' = [pc EXCEPT ![c] = "rejected"]
            /\ rejectedWith' = [rejectedWith EXCEPT ![c] = Coerce(err)]
            /\ finalThrown' = [finalThrown EXCEPT ![c] = err]
            /\ UNCHANGED <<timeoutRef, timers, delays>>
       ELSE \* timeoutRef.current = setTimeout(resolve, delay);
            /\ timeoutRef' = <<c, attempts[c] + 1>>
            /\ timers' = timers \cup {<<c, attempts[c] + 1>>}
            /\ delays' = [delays EXCEPT ![c] = Append(delays[c], delay[c])]
            /\ pc' = [pc EXCEPT ![c] = "waiting"]
            /\ UNCHANGED <<status, error, rejectedWith, finalThrown>>
    /\ UNCHANGED <<opts, mounted, savedCallback, nextCall, delay>>
    /\ UNCHANGED <<invocations, overlapped, unmountCase, invokedAfterUnmount,
                   capturedCallback, lastInvoked>>
    /\ UNCHANGED <<observeCallback, otherHooks>>

\* variant: the timer's callback does not resolve the awaited promise
TimerFire_unresolved(c) ==
    /\ pc[c] = "waiting"
    /\ <<c, attempts[c]>> \in timers
    /\ timers' = timers \ {<<c, attempts[c]>>}
    /\ UNCHANGED <<opts, mounted, savedCallback, timeoutRef, status, error>>
    /\ UNCHANGED <<callVars, obsVars>>
    /\ UNCHANGED <<observeCallback, otherHooks>>

\* variant: the delay is kept per hook instance instead of per call
TimerFire_sharedDelay(c) ==
    /\ pc[c] = "waiting"
    /\ <<c, attempts[c]>> \in timers
    /\ timers' = timers \ {<<c, attempts[c]>>}
    /\ delay' = [d \in Calls |-> IF pc[d] = "none" THEN delay[d]
                                                   ELSE NextDelay(delay[d])]
    /\ pc' = [pc EXCEPT ![c] = "inflight"]
    /\ invocations' = [invocations EXCEPT ![c] = invocations[c] + 1]
    /\ invokedAfterUnmount' = (invokedAfterUnmount \/ ~mounted)
    /\ lastInvoked' =
          Observed(CallbackToInvoke(capturedCallback), lastInvoked)
    /\ UNCHANGED <<opts, mounted, savedCallback, timeoutRef, status, error>>
    /\ UNCHANGED <<nextCall, attempts>>
    /\ UNCHANGED <<delays, finalThrown, rejectedWith, overlapped, unmountCase,
                   capturedCallback>>
    /\ UNCHANGED <<observeCallback, otherHooks>>

\* The timer <<c, k>> fires: the awaited promise resolves, the delay is
\* doubled in EXPONENTIAL mode, and attemptExecution() invokes the callback.
TimerFire(c) ==
    /\ pc[c] = "waiting"
    /\ <<c, attempts[c]>> \in timers
    /\ timers' = timers \ {<<c, attempts[c]>>}
    /\ delay' = [delay EXCEPT ![c] = NextDelay(delay[c])]
    /\ pc' = [pc EXCEPT ![c] = "inflight"]
    /\ invocations' = [invocations EXCEPT ![c] = invocations[c] + 1]
    /\ invokedAfterUnmount' = (invokedAfterUnmount \/ ~mounted)
    /\ lastInvoked' =
          Observed(CallbackToInvoke(capturedCallback), lastInvoked)
    /\ UNCHANGED <<opts, mounted, savedCallback, timeoutRef, status, error>>
    /\ UNCHANGED <<nextCall, attempts>>
    /\ UNCHANGED <<delays, finalThrown, rejectedWith, overlapped, unmountCase,
                   capturedCallback>>
    /\ UNCHANGED <<observeCallback, otherHooks>>

\* The component unmounts: the effect's cleanup runs.
\* if (timeoutRef.current) { clearTimeout(timeoutRef.current); }
Unmount ==
    /\ mounted
    /\ mounted' = FALSE
    /\ timers' = IF timeoutRef # NoTimer THEN ClearTimeout(timers, timeoutRef)
                                      ELSE timers
    /\ unmountCase' =
          IF timers = {} THEN "no delay pending"
          ELSE IF \E c \in Calls : Active(c) /\ overlapped[c]
               THEN "delay pending, calls overlapped"
               ELSE "delay pending, one call"
    /\ UNCHANGED <<opts, savedCallback, timeoutRef, status, error>>
    /\ UNCHANGED callVars
    /\ UNCHANGED <<invocations, delays, finalThrown, rejectedWith, overlapped,
                   invokedAfterUnmount, capturedCallback, lastInvoked>>
    /\ UNCHANGED <<observeCallback, otherHooks>>

Next ==
    \/ \E cb \in Callbacks : Rerender(cb)
    \/ Execute
    \/ \E c \in Calls : OpSucceed(c)
    \/ \E c \in Calls, err \in Thrown : OpFail(c, err)
    \/ \E c \in Calls : TimerFire(c)
    \/ Unmount

Spec == Init /\ [][Next]_vars

(* ======================================================================= *)
(* Properties of useRetry                                                  *)
(* ======================================================================= *)

RECURSIVE Pow2(_)
Pow2(n) == IF n = 0 THEN 1 ELSE 2 * Pow2(n - 1)

\* the policy is one the data model allows: initialInterval > 0, maxRetries >= 1
ValidPolicy == initialInterval > 0 /\ maxRetries >= 1

\* the step in which call c's promise is rejected
Rejects(c) == pc[c] = "inflight" /\ pc'[c] = "rejected"

\* the step in which call c's promise resolves
Resolves(c) == pc[c] = "inflight" /\ pc'[c] = "resolved"

\* the step in which an attempt of call c fails and a retry is scheduled
FailsAndRetries(c) == pc[c] = "inflight" /\ pc'[c] = "waiting"

\* the step in which execute() is called
Executes == nextCall' # nextCall

(* ------------------------------- C1 ------------------------------------ *)

\* C1: for every policy and every pattern of successes and failures, the
\* number of invocations of the operation during one execute() call never
\* exceeds maxRetries.
C1_InvocationsAtMostMaxRetries ==
    \A c \in Calls : invocations[c] <= maxRetries

(* ------------------------------- C2 ------------------------------------ *)

\* C2: when a call gives up (the operation failed on every attempt), it has
\* invoked the operation exactly maxRetries times, the status is 'error', the
\* recorded error is the last thrown error (a generic Error when the thrown
\* value is no Error), and the promise is rejected with that same error.
C2_AlwaysFailingRejectsAfterMaxRetries ==
    [][\A c \in Calls :
          Rejects(c) =>
              /\ invocations'[c] = maxRetries
              /\ status' = "error"
              /\ error' = Coerce(finalThrown'[c])
              /\ rejectedWith'[c] = error']_vars

(* ------------------------------- C3 ------------------------------------ *)

\* C3: in EXPONENTIAL mode the delay scheduled before the Nth retry of a call
\* is initialInterval * 2^(N-1); the delays of a call never decrease and the
\* call's current delay is initialInterval * 2^(number of retries started).
C3_ExponentialDelays ==
    mode = EXPONENTIAL_MODE =>
        \A c \in Calls :
            /\ \A n \in 1..Len(delays[c]) :
                   delays[c][n] = initialInterval * Pow2(n - 1)
            /\ \A n \in 1..(Len(delays[c]) - 1) : delays[c][n] <= delays[c][n + 1]
            /\ pc[c] # "none" => delay[c] = initialInterval * Pow2(invocations[c] - 1)

\* C3 witness: an EXPONENTIAL call with a positive interval has scheduled its
\* second retry.
C3_Witness ==
    /\ mode = EXPONENTIAL_MODE
    /\ initialInterval > 0
    /\ \E c \in Calls : Len(delays[c]) >= 2 /\ delays[c][2] = 2 * delays[c][1]

(* ------------------------------- C4 ------------------------------------ *)

\* C4: in CONSTANT mode, which is also the mode when opts.mode is omitted,
\* every retry delay scheduled within a call is exactly initialInterval.
C4_ConstantDelays ==
    mode = CONSTANT_MODE =>
        \A c \in Calls :
            \A n \in 1..Len(delays[c]) : delays[c][n] = initialInterval

\* C4 witness: with opts.mode omitted and a positive interval, a call has
\* scheduled its second retry.
C4_Witness ==
    /\ "mode" \notin DOMAIN opts
    /\ mode = CONSTANT_MODE
    /\ initialInterval > 0
    /\ \E c \in Calls : Len(delays[c]) >= 2 /\ attempts[c] >= 2

(* ------------------------------- C5 ------------------------------------ *)

\* C5 (as stated, here for valid policies alone): if the component is
\* unmounted while a retry delay is pending, the operation is never invoked
\* after the unmount, whatever execute() calls were made before.
C5_NoInvocationAfterUnmount ==
    (/\ ValidPolicy
     /\ unmountCase \in {"delay pending, one call",
                          "delay pending, calls overlapped"})
        => ~invokedAfterUnmount

\* C5 (amended): if the component is unmounted while a retry delay is pending
\* and the call that waits did not overlap with another execute() call, the
\* wait is cancelled and the operation is never invoked after the unmount.
C5_NoInvocationAfterUnmountOneCall ==
    unmountCase = "delay pending, one call"
        => ~invokedAfterUnmount /\ timers = {}

\* C5 witness: unmounted during the delay of a call that did not overlap; the
\* call waits for ever.
C5_Witness ==
    /\ unmountCase = "delay pending, one call"
    /\ \E c \in Calls : pc[c] = "waiting" /\ attempts[c] >= 1 /\ ~overlapped[c]
    /\ timers = {}

(* ------------------------------- C6 ------------------------------------ *)

\* C6: with an invalid policy (initialInterval <= 0 or maxRetries < 1)
\* execute() fails fast: the operation is not invoked and no retry delay is
\* scheduled.
C6_InvalidPolicyFailsFast ==
    ~ValidPolicy =>
        \A c \in Calls : invocations[c] = 0 /\ delays[c] = <<>>

(* ------------------------------- C7 ------------------------------------ *)

\* C7: a call whose operation succeeds on its first attempt has invoked the
\* operation exactly once and scheduled no timer; execute() moved the status
\* to 'fetching' (from 'idle' when it was idle) and the success moved it to
\* 'idle'; while the first attempt of a call that overlaps no other call is
\* in flight, the status is 'fetching'.
C7_FirstAttemptSuccess ==
    /\ [](\A c \in Calls :
            /\ (pc[c] = "resolved" /\ attempts[c] = 0)
                   => invocations[c] = 1 /\ delays[c] = <<>>
            /\ (pc[c] = "inflight" /\ attempts[c] = 0 /\ ~overlapped[c])
                   => status = "fetching" /\ timers = {})
    /\ [][/\ Executes => status' = "fetching"
          /\ \A c \in Calls :
                (Resolves(c) /\ attempts[c] = 0) =>
                    /\ status' = "idle"
                    /\ timers' = timers
                    /\ timeoutRef' = timeoutRef]_vars

\* C7 witness: starting from 'idle', the first call resolved on its first
\* attempt and the status is back to 'idle'.
C7_Witness ==
    /\ pc[1] = "resolved" /\ attempts[1] = 0 /\ invocations[1] = 1
    /\ nextCall = 2
    /\ status = "idle"
    /\ timeoutRef = NoTimer

(* ------------------------------- C8 ------------------------------------ *)

\* C8 (as stated, here for valid policies alone): whenever an execute() call
\* completes successfully, the status is 'idle' and the recorded error is null
\* at that moment, in every reachable state.
C8_SuccessLeavesIdleAndNoError ==
    [][\A c \in Calls :
          (ValidPolicy /\ Resolves(c)) => status' = "idle" /\ error' = NULL]_vars

\* C8 (amended): whenever an execute() call completes successfully the status
\* is 'idle' at that moment, and the recorded error is null at that moment if
\* the call did not overlap with another execute() call (also after earlier
\* calls that failed).
C8_SuccessLeavesIdleAndNoErrorOneCall ==
    [][\A c \in Calls :
          Resolves(c) =>
              /\ status' = "idle"
              /\ ~overlapped[c] => error' = NULL]_vars

\* C8 witness: after a first call that failed, a second, non-overlapping call
\* has succeeded: the status is 'idle' and the error is null.
C8_Witness ==
    /\ pc[1] = "rejected" /\ rejectedWith[1] # NULL
    /\ pc[2] = "resolved" /\ ~overlapped[2]
    /\ status = "idle" /\ error = NULL

(* ------------------------------- C9 ------------------------------------ *)

\* C9 (as stated, here for valid policies alone): once the status is 'error'
\* it stays 'error', with the recorded error unchanged, until execute() is
\* invoked, which sets it to 'fetching'; no other event moves the status out
\* of 'error'.
C9_ErrorIsTerminalUntilExecute ==
    [][(ValidPolicy /\ status = "error") =>
          IF Executes THEN status' = "fetching"
          ELSE status' = "error" /\ error' = error]_vars

\* C9 (amended): once the status is 'error' and no other execute() call is
\* still in progress, it stays 'error', with the recorded error unchanged,
\* until execute() is invoked, which sets it to 'fetching'.
C9_ErrorIsTerminalUntilExecuteNoCallInProgress ==
    [][(status = "error" /\ \A c \in Calls : ~Active(c)) =>
          IF Executes THEN status' = "fetching"
          ELSE status' = "error" /\ error' = error]_vars

\* C9 witness: a new execute() call was made while the status was 'error' (the
\* first call was rejected and the second started after it).
C9_Witness ==
    /\ pc[1] = "rejected"
    /\ pc[2] = "inflight" /\ ~overlapped[2] /\ attempts[2] = 0
    /\ status = "fetching" /\ error = NULL

(* ------------------------------- C10 ----------------------------------- *)

\* C10: a failure that is not the last allowed one is not surfaced: the step
\* leaves status and error unchanged and rejects nothing; an error is recorded
\* and a promise rejected only by a failure that brings a call's failed
\* attempts to maxRetries or more; and while fewer than maxRetries attempts of
\* a call that overlaps no other call have failed, the status is 'fetching',
\* the error null and the promise not rejected.
C10_IntermediateFailuresNotSurfaced ==
    /\ [](\A c \in Calls :
            (Active(c) /\ attempts[c] < maxRetries /\ ~overlapped[c]) =>
                status = "fetching" /\ error = NULL /\ rejectedWith[c] = NULL)
    /\ [][/\ \A c \in Calls :
                (pc[c] = "inflight" /\ attempts'[c] = attempts[c] + 1
                    /\ attempts'[c] < maxRetries) =>
                    /\ FailsAndRetries(c)
                    /\ status' = status /\ error' = error
                    /\ rejectedWith' = rejectedWith
          /\ (error' # error /\ error' # NULL) =>
                \E c \in Calls : Rejects(c) /\ attempts'[c] >= maxRetries
          /\ \A c \in Calls :
                rejectedWith'[c] # rejectedWith[c] =>
                    Rejects(c) /\ attempts'[c] >= maxRetries]_vars

\* C10 witness: a call has failed twice out of three allowed attempts and
\* waits for its second retry, with nothing surfaced.
C10_Witness ==
    \E c \in Calls :
        /\ pc[c] = "waiting" /\ attempts[c] = 2 /\ maxRetries = 3
        /\ status = "fetching" /\ error = NULL /\ rejectedWith[c] = NULL

(* ------------------------------- C11 ----------------------------------- *)

\* The awaited operation of call c settles, one way or the other.
OpSettles(c) == OpSucceed(c) \/ \E err \in Thrown : OpFail(c, err)

\* The hook while the component stays mounted.
NextMounted ==
    \/ \E cb \in Callbacks : Rerender(cb)
    \/ Execute
    \/ \E c \in Calls : OpSucceed(c)
    \/ \E c \in Calls, err \in Thrown : OpFail(c, err)
    \/ \E c \in Calls : TimerFire(c)

\* The component stays mounted, every invocation of the operation settles and
\* every pending timer fires.
SpecLive ==
    /\ Init
    /\ [][NextMounted]_vars
    /\ \A c \in Calls : WF_vars(OpSettles(c)) /\ WF_vars(TimerFire(c))

\* C11: provided invocations settle, timers fire and the component stays
\* mounted, every execute() call eventually settles; it resolves only by a
\* success of the operation, with status 'idle', and rejects only when its
\* attempts are exhausted, with status 'error'; a call that has settled stays
\* settled the same way.
C11_EveryCallSettles ==
    /\ \A c \in Calls :
          Active(c) ~> (pc[c] \in {"resolved", "rejected"})
    /\ [][\A c \in Calls :
            /\ Resolves(c) => status' = "idle"
            /\ Rejects(c) => status' = "error" /\ attempts'[c] >= maxRetries
            /\ (Active(c) /\ ~Active(c)') => Resolves(c) \/ Rejects(c)
            /\ pc[c] \in {"resolved", "rejected"} => pc'[c] = pc[c]]_vars

\* C11 witness: a call has resolved after retries and another was rejected.
C11_Witness ==
    /\ pc[1] = "resolved" /\ attempts[1] >= 1
    /\ pc[2] = "rejected" /\ attempts[2] >= 2

(* ------------------------------- C12 ----------------------------------- *)

\* C12: a call whose operation failed k times, k >= 1, and then succeeded had
\* k < maxRetries, made exactly k + 1 invocations and scheduled exactly k
\* delays; its success sets the status to 'idle', and the recorded error is
\* null then if the call did not overlap with another execute() call.
C12_SuccessAfterFailures ==
    /\ [](\A c \in Calls :
            (pc[c] = "resolved" /\ attempts[c] >= 1) =>
                /\ attempts[c] < maxRetries
                /\ invocations[c] = attempts[c] + 1
                /\ Len(delays[c]) = attempts[c])
    /\ [][\A c \in Calls :
            (Resolves(c) /\ attempts[c] >= 1) =>
                /\ status' = "idle"
                /\ ~overlapped[c] => error' = NULL]_vars

\* C12 witness: a call resolved after two failures, three invocations and two
\* delays; the status is 'idle' and the error null.
C12_Witness ==
    \E c \in Calls :
        /\ pc[c] = "resolved" /\ attempts[c] = 2
        /\ invocations[c] = 3 /\ Len(delays[c]) = 2
        /\ status = "idle" /\ error = NULL

(* ------------------------------- C16 ----------------------------------- *)

\* C16: the step of execute() sets the status to 'fetching' and the error to
\* null together with the call's first invocation of the operation; a call
\* that has not started has invoked nothing, and a call that did not overlap
\* with another makes all its invocations and waits under status 'fetching'
\* and error null, never under an 'idle' or 'error' left by an earlier call.
C16_FetchingBeforeFirstInvocation ==
    /\ [][Executes =>
            /\ invocations[nextCall] = 0
            /\ invocations'[nextCall] = 1
            /\ status' = "fetching"
            /\ error' = NULL]_vars
    /\ [](\A c \in Calls :
            /\ pc[c] = "none" => invocations[c] = 0
            /\ (Active(c) /\ ~overlapped[c]) =>
                   status = "fetching" /\ error = NULL)

\* C16 witness: the second call was started after the first one was rejected
\* (status 'error', error recorded) and is in its first invocation under
\* status 'fetching' and error null.
C16_Witness ==
    /\ pc[1] = "rejected" /\ finalThrown[1] # NULL
    /\ pc[2] = "inflight" /\ invocations[2] = 1 /\ ~overlapped[2]
    /\ status = "fetching" /\ error = NULL

(* ------------------------------- C17 ----------------------------------- *)

\* C17: the attempts of one call are strictly sequential: the invocations of
\* the call that have not settled yet are at most one, its pending delay
\* timers are at most one, a timer of the call is pending only while the call
\* waits, and no invocation of the call is in flight while it waits.
C17_AttemptsSequential ==
    \A c \in Calls :
        LET pending  == {t \in timers : t[1] = c}
            settled  == attempts[c] + (IF pc[c] = "resolved" THEN 1 ELSE 0)
            inFlight == invocations[c] - settled
        IN  /\ Cardinality(pending) <= 1
            /\ inFlight \in {0, 1}
            /\ inFlight = 1 <=> pc[c] = "inflight"
            /\ pending # {} => pc[c] = "waiting" /\ inFlight = 0

\* C17 witness: both calls wait for their second attempt, each with its own
\* single timer pending.
C17_Witness ==
    /\ pc[1] = "waiting" /\ pc[2] = "waiting"
    /\ timers = {<<1, 1>>, <<2, 1>>}
    /\ invocations[1] = 1 /\ invocations[2] = 1

(* ------------------------------- C18 ----------------------------------- *)

\* C18: the attempt counter and the delay belong to one call: execute()
\* starts the new call at 0 attempts and at delay initialInterval whatever
\* the other calls hold, and a step that changes the counter or the delay of
\* one call (a failure, a doubling) leaves those of every other call as they
\* were.
C18_CountersPerCall ==
    [][/\ Executes =>
             /\ attempts'[nextCall] = 0
             /\ delay'[nextCall] = initialInterval
             /\ \A d \in Calls \ {nextCall} :
                    attempts'[d] = attempts[d] /\ delay'[d] = delay[d]
       /\ \A c \in Calls :
             (attempts'[c] # attempts[c] \/ delay'[c] # delay[c]) =>
                 \A d \in Calls \ {c} :
                     attempts'[d] = attempts[d] /\ delay'[d] = delay[d]]_vars

\* C18 witness: two calls overlap; the first has failed twice and doubled its
\* delay once, the second still has 0 attempts and delay initialInterval.
C18_Witness ==
    /\ Active(1) /\ Active(2)
    /\ initialInterval > 0
    /\ attempts[1] = 2 /\ delay[1] = 2 * initialInterval
    /\ attempts[2] = 0 /\ delay[2] = initialInterval

(* ------------------------------- C20 ----------------------------------- *)

SpecCallback == InitCallback /\ [][Next]_vars

\* C20: every invocation, the first of a call and every retry, runs the
\* callback stored by the most recent render (savedCallback.current at the
\* moment of the invocation), whatever callback the render that called
\* execute() had.
C20_LatestCallbackInvoked ==
    [][\A c \in Calls :
          invocations'[c] # invocations[c] => lastInvoked' = savedCallback]_vars

\* C20 witness: the only call was started under callback cbA, a render with
\* cbB came while its delay was pending, and its second attempt ran cbB.
C20_Witness ==
    /\ observeCallback
    /\ nextCall = 2 /\ pc[1] = "inflight" /\ invocations[1] = 2
    /\ capturedCallback = "cbA"
    /\ lastInvoked = "cbB"

(* ======================= useDebounce: the actions ====================== *)

\* A render with a changed value or delayMs: the cleanup of the previous
\* effect clears its timer, then the effect sets a timer for the new value.
DebounceRender(v, d) ==
    /\ debounceMounted
    /\ <<v, d>> # <<value, delayMs>>
    /\ value' = v
    /\ delayMs' = d
    /\ handler' = SetTimeout(v, d)
    /\ handlers' = DebounceCleanup(handlers, handler) \cup {SetTimeout(v, d)}
    /\ lastChange' = now
    /\ cancelled' = (cancelled \/ handler \in handlers)
    /\ UNCHANGED <<debouncedValue, now, debounceMounted, lastPublishedAt>>
    /\ UNCHANGED <<retryVars, storageVars, pollingVars>>

\* The timer t is due and fires: setDebouncedValue(value) with the value of
\* the render that set it.
DebounceFire(t) ==
    /\ t \in handlers
    /\ now >= t[3]
    /\ handlers' = handlers \ {t}
    /\ debouncedValue' = t[1]
    /\ lastPublishedAt' = now
    /\ UNCHANGED <<value, delayMs, handler, now, debounceMounted, lastChange,
                   cancelled>>
    /\ UNCHANGED <<retryVars, storageVars, pollingVars>>

\* One millisecond passes.
DebounceTick ==
    /\ now < MaxTime
    /\ now' = now + 1
    /\ UNCHANGED <<value, delayMs, debouncedValue, handler, handlers,
                   debounceMounted, lastChange, cancelled, lastPublishedAt>>
    /\ UNCHANGED <<retryVars, storageVars, pollingVars>>

\* The component unmounts: the cleanup of the effect runs.
DebounceUnmount ==
    /\ debounceMounted
    /\ debounceMounted' = FALSE
    /\ handlers' = DebounceCleanup(handlers, handler)
    /\ UNCHANGED <<value, delayMs, debouncedValue, handler, now, lastChange,
                   cancelled, lastPublishedAt>>
    /\ UNCHANGED <<retryVars, storageVars, pollingVars>>

NextDebounce ==
    \/ \E v \in InputValues, d \in 0..MaxDelayMs : DebounceRender(v, d)
    \/ \E t \in handlers : DebounceFire(t)
    \/ DebounceTick
    \/ DebounceUnmount

InitDebounce ==
    RetryParked /\ DebounceInit /\ StorageParked /\ PollingParked

SpecDebounce == InitDebounce /\ [][NextDebounce]_vars

(* ------------------------------- C13 ----------------------------------- *)

\* a step in which a timer fires
DebounceFires ==
    /\ lastPublishedAt' # lastPublishedAt \/ Cardinality(handlers') < Cardinality(handlers)
    /\ debounceMounted' = debounceMounted
    /\ <<value', delayMs'>> = <<value, delayMs>>

\* C13: the returned value changes only when a timer fires, a firing timer
\* publishes the current input value and fires only when delayMs has elapsed
\* since value or delayMs changed last; every change of value or delayMs
\* cancels the pending timer, so at most one timer is pending and it is the
\* one of the latest effect; after the unmount no timer is pending and the
\* returned value no longer changes.
C13_DebouncePublishesSettledValue ==
    /\ [][/\ debouncedValue' # debouncedValue => DebounceFires
          /\ DebounceFires =>
                /\ debouncedValue' = value
                /\ now >= lastChange + delayMs
                /\ debounceMounted
          /\ <<value', delayMs'>> # <<value, delayMs>> =>
                handlers \cap handlers' = {}
          /\ ~debounceMounted => debouncedValue' = debouncedValue]_vars
    /\ [](/\ Cardinality(handlers) <= 1
          /\ handlers \subseteq {handler}
          /\ ~debounceMounted => handlers = {})

\* C13 witness: "b" was typed and replaced by "c" while its timer was
\* pending; "c" was published when its own delay had elapsed.
C13_Witness ==
    /\ cancelled /\ value = "c" /\ debouncedValue = "c"
    /\ delayMs = 2 /\ lastChange = 1 /\ lastPublishedAt = 3
    /\ handlers = {}

(* ===================== useLocalStorage: the actions ==================== *)

\* value instanceof Function ? value(storedValue) : value, for an updater:
\* storedValue is the one the latest render read
UpdatedValue(f) == Apply(f, renderedValue)

\* The body of setValue: setStoredValue(valueToStore), then
\* localStorage.setItem(key, JSON.stringify(valueToStore)); `throws` tells
\* whether setItem throws (quota exceeded, storage disabled), which the catch
\* block logs.
SetValueBody(valueToStore, throws, op) ==
    /\ listening
    /\ storedValue' = valueToStore
    /\ localStorage' =
          IF throws THEN localStorage
          ELSE [localStorage EXCEPT ![key] = Stringify(valueToStore)]
    /\ lastOp' = op
    /\ UNCHANGED <<key, initialValue, renderedValue, listening>>
    /\ UNCHANGED <<retryVars, debounceVars, pollingVars>>

\* setValue(v) with a plain value
SetValue(v, throws) ==
    SetValueBody(v, throws,
                 Op("setValue", lastOp.op, v, "", key, NoItem, storedValue,
                    throws))

\* setValue(f) with an updater function
SetValueWith(f, throws) ==
    SetValueBody(UpdatedValue(f), throws,
                 Op("update", lastOp.op, 0, f, key, NoItem, storedValue,
                    throws))

\* The component renders after a state change: setValue is created anew and
\* closes over the current state.
StorageRender ==
    /\ listening
    /\ renderedValue # storedValue
    /\ renderedValue' = storedValue
    /\ lastOp' = Op("render", lastOp.op, 0, "", key, NoItem, storedValue, FALSE)
    /\ UNCHANGED <<key, initialValue, storedValue, localStorage, listening>>
    /\ UNCHANGED <<retryVars, debounceVars, pollingVars>>

\* Another document sets (item) or removes (NoItem) the key k; the storage
\* event reaches handleStorageChange while the listener is registered.
StorageEvent(k, item) ==
    /\ localStorage[k] # item
    /\ localStorage' = [localStorage EXCEPT ![k] = item]
    /\ storedValue' =
          IF listening /\ k = key
          THEN IF Truthy(item)
               THEN IF ParseOK(item) THEN Parse(item) ELSE storedValue
               ELSE initialValue
          ELSE storedValue
    /\ lastOp' = Op("event", lastOp.op, 0, "", k, item, storedValue, FALSE)
    /\ UNCHANGED <<key, initialValue, renderedValue, listening>>
    /\ UNCHANGED <<retryVars, debounceVars, pollingVars>>

\* Another document calls localStorage.clear(): the storage event has the
\* key null, so `e.key === key` is false.
StorageClear ==
    /\ \E k \in Keys : localStorage[k] # NoItem
    /\ localStorage' = [k \in Keys |-> NoItem]
    /\ lastOp' = Op("clear", lastOp.op, 0, "", "", NoItem, storedValue, FALSE)
    /\ UNCHANGED <<key, initialValue, storedValue, renderedValue, listening>>
    /\ UNCHANGED <<retryVars, debounceVars, pollingVars>>

\* The component unmounts: removeEventListener.
StorageUnmount ==
    /\ listening
    /\ listening' = FALSE
    /\ lastOp' = Op("unmount", lastOp.op, 0, "", key, NoItem, storedValue, FALSE)
    /\ UNCHANGED <<key, initialValue, storedValue, renderedValue, localStorage>>
    /\ UNCHANGED <<retryVars, debounceVars, pollingVars>>

NextStorage ==
    \/ \E v \in StoredValues, throws \in BOOLEAN : SetValue(v, throws)
    \/ \E f \in Updaters, throws \in BOOLEAN : SetValueWith(f, throws)
    \/ StorageRender
    \/ \E k \in Keys, item \in RawItems \cup {NoItem} : StorageEvent(k, item)
    \/ StorageClear
    \/ StorageUnmount

InitStorage ==
    RetryParked /\ DebounceParked /\ StorageInit /\ PollingParked

SpecStorage == InitStorage /\ [][NextStorage]_vars

(* ------------------------------- C14 ----------------------------------- *)

\* C14: after setValue(v) the state and localStorage[key] both hold v; after
\* a storage event of the hook's key with a JSON text the state is the parsed
\* text, after one that removes the key it is initialValue; a storage event
\* of another key leaves the state as it was.
C14_StateAndStorageSynchronised ==
    /\ lastOp.op = "setValue" =>
          /\ storedValue = lastOp.val
          /\ localStorage[key] = Stringify(lastOp.val)
    /\ (lastOp.op = "event" /\ lastOp.key = key /\ listening) =>
          /\ ParseOK(lastOp.item) => storedValue = Parse(lastOp.item)
          /\ lastOp.item = NoItem => storedValue = initialValue
    /\ (lastOp.op = "event" /\ lastOp.key # key) =>
          storedValue = lastOp.before

(* ------------------------------- C15 ----------------------------------- *)

\* C15: a second updater call that follows an updater call with no render in
\* between, and whose write does not throw, leaves the state and
\* localStorage[key] at the updater applied to the state the first call
\* left: g(f(v)).
C15_UpdaterAppliesToLatestState ==
    (lastOp.op = "update" /\ lastOp.prev = "update" /\ ~lastOp.threw) =>
        /\ storedValue = Apply(lastOp.fn, lastOp.before)
        /\ localStorage[key] = Stringify(Apply(lastOp.fn, lastOp.before))

(* ======================== usePolling: the actions ====================== *)

\* A render with opts (en, iv) and callback cb: the first effect stores cb;
\* if interval or enabled changed, the cleanup of the previous polling effect
\* runs (isMounted = false; clearInterval(timerId)) and the effect runs
\* again, starting a timer unless it returns early.
PollRender(en, iv, cb) ==
    /\ pollMounted
    /\ StartsPolling(en, iv) /\ <<iv, en>> # <<interval, enabled>>
          => effects < MaxEffects
    /\ pollCallback' = cb
    /\ enabled' = en
    /\ interval' = iv
    /\ IF <<iv, en>> = <<interval, enabled>>
       THEN UNCHANGED <<timerId, intervalTimers, isMounted, effects>>
       ELSE LET cleared == IF timerId = NoTimer THEN intervalTimers
                           ELSE PollCleanup(intervalTimers, timerId)
                alive   == IF timerId = NoTimer THEN isMounted
                           ELSE isMounted \ {timerId[1]}
            IN  IF StartsPolling(en, iv)
                THEN /\ effects' = effects + 1
                     /\ timerId' = SetInterval(effects + 1, en, iv)
                     /\ intervalTimers' =
                           cleared \cup {SetInterval(effects + 1, en, iv)}
                     /\ isMounted' = alive \cup {effects + 1}
                ELSE /\ effects' = effects
                     /\ timerId' = NoTimer
                     /\ intervalTimers' = cleared
                     /\ isMounted' = alive
    /\ UNCHANGED <<pollMounted, pollCount, invokedBy>>
    /\ UNCHANGED <<retryVars, debounceVars, storageVars>>

\* The interval timer t ticks: executeCallback returns at once if the flag
\* of its effect is false, and invokes savedCallback.current otherwise.
PollTick(t) ==
    /\ t \in intervalTimers
    /\ pollCount < MaxPolls
    /\ IF t[1] \in isMounted
       THEN /\ pollCount' = pollCount + 1
            /\ invokedBy' = t
       ELSE UNCHANGED <<pollCount, invokedBy>>
    /\ UNCHANGED <<enabled, interval, pollCallback, timerId, intervalTimers,
                   isMounted, effects, pollMounted>>
    /\ UNCHANGED <<retryVars, debounceVars, storageVars>>

\* The component unmounts: the cleanup of the polling effect, if it started
\* polling.
PollUnmount ==
    /\ pollMounted
    /\ pollMounted' = FALSE
    /\ intervalTimers' = IF timerId = NoTimer THEN intervalTimers
                         ELSE PollCleanup(intervalTimers, timerId)
    /\ isMounted' = IF timerId = NoTimer THEN isMounted
                    ELSE isMounted \ {timerId[1]}
    /\ UNCHANGED <<enabled, interval, pollCallback, timerId, effects,
                   pollCount, invokedBy>>
    /\ UNCHANGED <<retryVars, debounceVars, storageVars>>

NextPolling ==
    \/ \E en \in BOOLEAN, iv \in 0..MaxPollInterval, cb \in Callbacks :
          PollRender(en, iv, cb)
    \/ \E t \in intervalTimers : PollTick(t)
    \/ PollUnmount

InitPolling ==
    RetryParked /\ DebounceParked /\ StorageParked /\ PollingInit

SpecPolling == InitPolling /\ [][NextPolling]_vars

(* ------------------------------- C19 ----------------------------------- *)

\* C19: every invocation of the callback is made by the interval timer of
\* the latest effect, a timer started under enabled = true and interval > 0,
\* while the component is mounted and enabled and interval are still the
\* ones the timer was started under; a timer whose effect was cleaned up
\* (unmount, enabled false, interval changed) is no longer active, so at
\* most one interval timer is active.
C19_PollingOnlyByTheActiveTimer ==
    /\ [][pollCount' # pollCount =>
            /\ invokedBy' \in intervalTimers
            /\ invokedBy' = timerId
            /\ invokedBy'[2] /\ invokedBy'[3] > 0
            /\ <<enabled, interval>> = <<invokedBy'[2], invokedBy'[3]>>
            /\ pollMounted]_vars
    /\ [](/\ Cardinality(intervalTimers) <= 1
          /\ intervalTimers \subseteq {timerId}
          /\ intervalTimers # {} =>
                pollMounted /\ StartsPolling(enabled, interval))

\* C19 witness: polling was started, stopped by a render and started again;
\* the timer of the third polling effect is the only active one and made the
\* latest of two invocations.
C19_Witness ==
    /\ effects = 3 /\ pollCount = 2
    /\ intervalTimers = {timerId} /\ invokedBy = timerId
    /\ timerId[1] = 3

=============================================================================
